---- MODULE Spec2Model ----
(***************************************************************************)
(* The polls application: Question and Choice tables, the publish-date     *)
(* filtered manager Question.objects, and the four request handlers        *)
(* index, detail, vote and results.                                        *)
(*                                                                         *)
(* Spec      requests are served one at a time (each handler is one step). *)
(* ConcSpec  requests of several clients overlap; every database query of  *)
(*           a handler is one step.                                        *)
(***************************************************************************)
EXTENDS Integers, Sequences, FiniteSets

VARIABLES
    now,        \* timezone.now(), in clock ticks
    questions,  \* Question table: row pk -> [pub_date]; pk is the position
    choices,    \* Choice table: row pk -> [question (foreign key), votes]
    request,    \* last request served: [view, question_id, choice field]
    response,   \* last response returned by a handler
    served,     \* number of requests received so far
    accepted,   \* per Choice pk: number of vote requests answered by a redirect
    inflight    \* per client: the handler in progress and its local variables

vars == <<now, questions, choices, request, response, served, accepted, inflight>>

(* ---- bounds ---- *)
MaxQuestions == 2
MaxChoices == 2
MaxTime == 1
MaxServed == 3
NumClients == 2

Clients == 1..NumClients
QuestionIds == 1..(MaxQuestions + 1)
NoChoice == 0
ChoiceFields == 0..(MaxChoices + 1)
DoesNotExist == 0

(* ---- responses ---- *)
NoResponse ==
    [status |-> 0, template |-> "", question |-> 0, questions |-> <<>>,
     choices |-> {}, error_message |-> "", location |-> <<>>]

Http404 ==
    [status |-> 404, template |-> "", question |-> 0, questions |-> <<>>,
     choices |-> {}, error_message |-> "", location |-> <<>>]

render(template, question, listing, prefetched, error_message) ==
    [status |-> 200, template |-> template, question |-> question,
     questions |-> listing, choices |-> prefetched,
     error_message |-> error_message, location |-> <<>>]

HttpResponseRedirect(location) ==
    [status |-> 302, template |-> "", question |-> 0, questions |-> <<>>,
     choices |-> {}, error_message |-> "", location |-> location]

reverse(name, question_id) == <<name, question_id>>

NoRequest == [view |-> "", question_id |-> 0, choice |-> NoChoice]

(* ---- models.py ---- *)
get_queryset_lt == {id \in DOMAIN questions : questions[id].pub_date < now}

get_queryset_all == DOMAIN questions

get_queryset_gte == {id \in DOMAIN questions : questions[id].pub_date >= now}

get_queryset == {id \in DOMAIN questions : questions[id].pub_date <= now}

QuestionGet(pk) == IF pk \in get_queryset THEN pk ELSE DoesNotExist

ChoiceGetUnscoped(question, pk) ==
    IF pk \in DOMAIN choices THEN [id |-> pk, votes |-> choices[pk].votes]
    ELSE [id |-> DoesNotExist, votes |-> 0]

ChoiceGet(question, pk) ==
    IF pk \in DOMAIN choices /\ choices[pk].question = question
    THEN [id |-> pk, votes |-> choices[pk].votes]
    ELSE [id |-> DoesNotExist, votes |-> 0]

Prefetch(question) ==
    {[id |-> c, votes |-> choices[c].votes] :
        c \in {d \in DOMAIN choices : choices[d].question = question}}

(* ---- order_by('-pub_date') over the filtered rows ---- *)
ScanOrders(S) ==
    {s \in [1..Cardinality(S) -> S] : \A i, j \in DOMAIN s : i # j => s[i] # s[j]}

RECURSIVE InsertAsc(_, _)
InsertAsc(id, sorted) ==
    IF sorted = <<>> THEN <<id>>
    ELSE IF questions[Head(sorted)].pub_date <= questions[id].pub_date
         THEN <<Head(sorted)>> \o InsertAsc(id, Tail(sorted))
         ELSE <<id>> \o sorted

RECURSIVE InsertDesc(_, _)
InsertDesc(id, sorted) ==
    IF sorted = <<>> THEN <<id>>
    ELSE IF questions[Head(sorted)].pub_date >= questions[id].pub_date
         THEN <<Head(sorted)>> \o InsertDesc(id, Tail(sorted))
         ELSE <<id>> \o sorted

RECURSIVE OrderByAsc(_)
OrderByAsc(rows) ==
    IF rows = <<>> THEN <<>>
    ELSE InsertAsc(rows[Len(rows)], OrderByAsc(SubSeq(rows, 1, Len(rows) - 1)))

RECURSIVE OrderByPubDateDesc(_)
OrderByPubDateDesc(rows) ==
    IF rows = <<>> THEN <<>>
    ELSE InsertDesc(rows[Len(rows)],
                    OrderByPubDateDesc(SubSeq(rows, 1, Len(rows) - 1)))

(* ---- views.py: vote ---- *)
AddTwoVotes(selected_choice) == [selected_choice EXCEPT !.votes = @ + 2]

AddVote(selected_choice) == [selected_choice EXCEPT !.votes = @ + 1]

SaveAllOfQuestion(table, obj) ==
    [c \in DOMAIN table |->
        IF table[c].question = table[obj.id].question
        THEN [table[c] EXCEPT !.votes = obj.votes] ELSE table[c]]

SaveAtomicIncrement(table, obj) ==
    [table EXCEPT ![obj.id] = [@ EXCEPT !.votes = @ + 1]]

Save(table, obj) == [table EXCEPT ![obj.id] = [@ EXCEPT !.votes = obj.votes]]

VoteOutcomeChoiceFirst(question, choice) ==
    IF choice = NoChoice THEN "invalid"
    ELSE IF question = DoesNotExist THEN "not_found"
    ELSE IF ChoiceGet(question, choice).id = DoesNotExist THEN "invalid"
    ELSE "selected"

VoteOutcome(question, choice) ==
    IF question = DoesNotExist THEN "not_found"
    ELSE IF choice = NoChoice THEN "invalid"
    ELSE IF ChoiceGet(question, choice).id = DoesNotExist THEN "invalid"
    ELSE "selected"

VoteError(question) ==
    render("polls/detail.html", question, <<>>, {}, "You didn't select a choice.")

Accept(resp, selected_choice) ==
    IF resp.status = 302
    THEN [accepted EXCEPT ![selected_choice.id] = @ + 1]
    ELSE accepted

(* ---- initial state: empty tables ---- *)
Init ==
    /\ now = 0
    /\ questions = <<>>
    /\ choices = <<>>
    /\ request = NoRequest
    /\ response = NoResponse
    /\ served = 0
    /\ accepted = <<>>
    /\ inflight = [r \in Clients |->
                       [pc |-> "idle", request |-> NoRequest, question |-> 0,
                        selected_choice |-> [id |-> 0, votes |-> 0]]]

(* ---- the clock and the fixtures ---- *)
Tick ==
    /\ now < MaxTime
    /\ now' = now + 1
    /\ UNCHANGED <<questions, choices, request, response, served, accepted, inflight>>

create_question(pub_date) ==
    /\ Len(questions) < MaxQuestions
    /\ questions' = Append(questions, [pub_date |-> pub_date])
    /\ UNCHANGED <<now, choices, request, response, served, accepted, inflight>>

create_choice(question) ==
    /\ Len(choices) < MaxChoices
    /\ question \in DOMAIN questions
    /\ choices' = Append(choices, [question |-> question, votes |-> 0])
    /\ accepted' = Append(accepted, 0)
    /\ UNCHANGED <<now, questions, request, response, served, inflight>>

(* ---- the handlers, one request at a time ---- *)
Serve(view, question_id, choice) ==
    /\ served < MaxServed
    /\ served' = served + 1
    /\ request' = [view |-> view, question_id |-> question_id, choice |-> choice]

index ==
    /\ Serve("index", 0, NoChoice)
    /\ \E rows \in ScanOrders(get_queryset) :
          response' = render("polls/index.html", 0, OrderByPubDateDesc(rows), {}, "")
    /\ UNCHANGED <<now, questions, choices, accepted, inflight>>

detail(question_id) ==
    /\ Serve("detail", question_id, NoChoice)
    /\ LET question == QuestionGet(question_id) IN
          response' = IF question = DoesNotExist THEN Http404
                      ELSE render("polls/detail.html", question, <<>>,
                                  Prefetch(question), "")
    /\ UNCHANGED <<now, questions, choices, accepted, inflight>>

vote(question_id, choice) ==
    /\ Serve("vote", question_id, choice)
    /\ LET question == QuestionGet(question_id)
           outcome == VoteOutcome(question, choice)
       IN  CASE outcome = "not_found" ->
                  /\ response' = Http404
                  /\ UNCHANGED <<choices, accepted>>
             [] outcome = "invalid" ->
                  /\ response' = VoteError(question)
                  /\ UNCHANGED <<choices, accepted>>
             [] outcome = "selected" ->
                  LET selected_choice == AddVote(ChoiceGet(question, choice)) IN
                  /\ choices' = Save(choices, selected_choice)
                  /\ response' = HttpResponseRedirect(reverse("polls:results", question))
                  /\ accepted' = Accept(response', selected_choice)
    /\ UNCHANGED <<now, questions, inflight>>

results(question_id) ==
    /\ Serve("results", question_id, NoChoice)
    /\ LET question == QuestionGet(question_id) IN
          response' = IF question = DoesNotExist THEN Http404
                      ELSE render("polls/results.html", question, <<>>,
                                  Prefetch(question), "")
    /\ UNCHANGED <<now, questions, choices, accepted, inflight>>

Next ==
    \/ Tick
    \/ \E pub_date \in 0..MaxTime : create_question(pub_date)
    \/ \E question \in 1..MaxQuestions : create_choice(question)
    \/ index
    \/ \E question_id \in QuestionIds : detail(question_id)
    \/ \E question_id \in QuestionIds, choice \in ChoiceFields : vote(question_id, choice)
    \/ \E question_id \in QuestionIds : results(question_id)

Spec == Init /\ [][Next]_vars

(* ---- the handlers when requests of several clients overlap ---- *)
Idle == [pc |-> "idle", request |-> NoRequest, question |-> 0,
         selected_choice |-> [id |-> 0, votes |-> 0]]

Begin(r) ==
    /\ inflight[r].pc = "idle"
    /\ served < MaxServed
    /\ served' = served + 1

Received(view, question_id, choice) ==
    [view |-> view, question_id |-> question_id, choice |-> choice]

Respond(r, resp) ==
    /\ inflight' = [inflight EXCEPT ![r] = Idle]
    /\ response' = resp

index_query(r) ==
    /\ Begin(r)
    /\ \E rows \in ScanOrders(get_queryset) :
          Respond(r, render("polls/index.html", 0, OrderByPubDateDesc(rows), {}, ""))
    /\ UNCHANGED <<now, questions, choices, request, accepted>>

get_question(r, view, question_id, choice, next) ==
    /\ Begin(r)
    /\ LET question == QuestionGet(question_id) IN
          IF question = DoesNotExist
          THEN Respond(r, Http404)
          ELSE /\ inflight' = [inflight EXCEPT ![r] =
                      [pc |-> next,
                       request |-> Received(view, question_id, choice),
                       question |-> question,
                       selected_choice |-> [id |-> 0, votes |-> 0]]]
               /\ UNCHANGED response
    /\ UNCHANGED <<now, questions, choices, request, accepted>>

detail_get_question(r, question_id) ==
    get_question(r, "detail", question_id, NoChoice, "prefetch")

results_get_question(r, question_id) ==
    get_question(r, "results", question_id, NoChoice, "prefetch")

vote_get_question(r, question_id, choice) ==
    get_question(r, "vote", question_id, choice, "get_choice")

prefetch_related(r) ==
    /\ inflight[r].pc = "prefetch"
    /\ LET template == IF inflight[r].request.view = "detail"
                       THEN "polls/detail.html" ELSE "polls/results.html"
       IN  Respond(r, render(template, inflight[r].question, <<>>,
                          Prefetch(inflight[r].question), ""))
    /\ UNCHANGED <<now, questions, choices, request, served, accepted>>

vote_get_choice(r) ==
    /\ inflight[r].pc = "get_choice"
    /\ LET question == inflight[r].question
           choice == inflight[r].request.choice
       IN  IF VoteOutcome(question, choice) = "selected"
           THEN /\ inflight' = [inflight EXCEPT ![r] =
                       [@ EXCEPT !.pc = "save",
                                 !.selected_choice = ChoiceGet(question, choice)]]
                /\ UNCHANGED response
           ELSE Respond(r, VoteError(question))
    /\ UNCHANGED <<now, questions, choices, request, served, accepted>>

vote_save(r) ==
    /\ inflight[r].pc = "save"
    /\ LET selected_choice == AddVote(inflight[r].selected_choice)
           resp == HttpResponseRedirect(reverse("polls:results", inflight[r].question))
       IN  /\ choices' = Save(choices, selected_choice)
           /\ Respond(r, resp)
           /\ accepted' = Accept(resp, selected_choice)
    /\ UNCHANGED <<now, questions, request, served>>

ConcNext ==
    \/ Tick
    \/ \E pub_date \in 0..MaxTime : create_question(pub_date)
    \/ \E question \in 1..MaxQuestions : create_choice(question)
    \/ \E r \in Clients : index_query(r)
    \/ \E r \in Clients, question_id \in QuestionIds : detail_get_question(r, question_id)
    \/ \E r \in Clients, question_id \in QuestionIds : results_get_question(r, question_id)
    \/ \E r \in Clients, question_id \in QuestionIds, choice \in ChoiceFields :
          vote_get_question(r, question_id, choice)
    \/ \E r \in Clients : prefetch_related(r)
    \/ \E r \in Clients : vote_get_choice(r)
    \/ \E r \in Clients : vote_save(r)

ConcSpec == Init /\ [][ConcNext]_vars

(* ---- vocabulary of the properties ---- *)
Handled == served' = served + 1

Exists(question_id) == question_id \in DOMAIN questions

IsPublished(question_id) ==
    Exists(question_id) /\ questions[question_id].pub_date <= now

IsFuture(question_id) ==
    Exists(question_id) /\ questions[question_id].pub_date > now

Belongs(choice, question_id) ==
    choice \in DOMAIN choices /\ choices[choice].question = question_id

OthersUnchanged(choice) ==
    /\ DOMAIN choices' = DOMAIN choices
    /\ \A c \in DOMAIN choices : c # choice => choices'[c] = choices[c]

(* C1: a vote for a published Question that submits one of its Choices adds
   exactly 1 to that Choice's votes, leaves every other Choice unchanged and
   redirects to the results view of the same question identifier. *)
C1_VoteIncrementsAndRedirects ==
    [][(/\ Handled
        /\ request'.view = "vote"
        /\ IsPublished(request'.question_id)
        /\ Belongs(request'.choice, request'.question_id))
       => /\ choices'[request'.choice].votes = choices[request'.choice].votes + 1
          /\ choices'[request'.choice].question = choices[request'.choice].question
          /\ OthersUnchanged(request'.choice)
          /\ response'.status = 302
          /\ response'.location = <<"polls:results", request'.question_id>>]_vars

C1_Witness ==
    /\ request.view = "vote"
    /\ response.status = 302
    /\ Len(choices) = 2
    /\ choices[1].question = choices[2].question
    /\ choices[request.choice].votes = 1
    /\ choices[3 - request.choice].votes = 0

(* C2: a vote for a published Question whose choice field is absent or names
   no Choice of that Question changes no votes and re-renders the detail view
   of that Question with the error message and status 200. *)
C2_InvalidChoiceRerendersDetail ==
    [][(/\ Handled
        /\ request'.view = "vote"
        /\ IsPublished(request'.question_id)
        /\ \/ request'.choice = NoChoice
           \/ ~Belongs(request'.choice, request'.question_id))
       => /\ choices' = choices
          /\ response'.status = 200
          /\ response'.template = "polls/detail.html"
          /\ response'.question = request'.question_id
          /\ response'.error_message = "You didn't select a choice."]_vars

C2_Witness ==
    /\ request.view = "vote"
    /\ response.error_message = "You didn't select a choice."
    /\ request.choice \in DOMAIN choices
    /\ choices[request.choice].question # request.question_id
    /\ IsPublished(choices[request.choice].question)

(* C3: for a question identifier with no Question row, detail, results and
   vote answer 404 whatever choice field is submitted, and no votes change. *)
C3_UnknownQuestionNotFound ==
    [][(/\ Handled
        /\ request'.view \in {"detail", "results", "vote"}
        /\ ~Exists(request'.question_id))
       => /\ response'.status = 404
          /\ choices' = choices]_vars

C3_Witness ==
    /\ request.view = "vote"
    /\ ~Exists(request.question_id)
    /\ request.choice \in DOMAIN choices
    /\ response.status = 404

(* C4: the index listing holds exactly the Questions with pub_date at or
   before the current instant, each once, newest first, and succeeds even
   when it is empty. *)
C4_IndexListsPublishedNewestFirst ==
    [][(Handled /\ request'.view = "index")
       => LET listing == response'.questions IN
          /\ response'.status = 200
          /\ {listing[i] : i \in DOMAIN listing} =
                {q \in DOMAIN questions : questions[q].pub_date <= now}
          /\ \A i, j \in DOMAIN listing : i # j => listing[i] # listing[j]
          /\ \A i, j \in DOMAIN listing :
                i < j => questions[listing[i]].pub_date >= questions[listing[j]].pub_date]_vars

C4_Witness ==
    /\ request.view = "index"
    /\ Len(response.questions) = 2
    /\ questions[response.questions[1]].pub_date > questions[response.questions[2]].pub_date

(* C5: detail of an existing Question with a future pub_date is 404; detail
   of an existing Question with a past pub_date is 200 with that Question. *)
C5_DetailFutureNotFoundPastOk ==
    [][(Handled /\ request'.view = "detail" /\ Exists(request'.question_id))
       => /\ questions[request'.question_id].pub_date > now
                => response'.status = 404
          /\ questions[request'.question_id].pub_date < now
                => /\ response'.status = 200
                   /\ response'.template = "polls/detail.html"
                   /\ response'.question = request'.question_id]_vars

C5_Witness ==
    /\ request.view = "detail"
    /\ Exists(request.question_id)
    /\ questions[request.question_id].pub_date < now
    /\ response.status = 200
    /\ response.question = request.question_id

(* C6 as stated: detail of an existing Question with a future pub_date is
   not answered 404 but renders the detail view. *)
C6_DetailIgnoresPublishDate ==
    [][(Handled /\ request'.view = "detail" /\ IsFuture(request'.question_id))
       => /\ response'.status # 404
          /\ response'.template = "polls/detail.html"]_vars

(* C6 amended: the detail handler fetches through the publish-date filtered
   manager; it renders the detail view exactly when a Question with that
   identifier exists and its pub_date is at or before the current instant,
   and answers 404 otherwise, also for an existing future Question. *)
C6_DetailEnforcesPublishDate ==
    [][(Handled /\ request'.view = "detail")
       => IF IsPublished(request'.question_id)
          THEN /\ response'.status = 200
               /\ response'.template = "polls/detail.html"
               /\ response'.question = request'.question_id
          ELSE response'.status = 404]_vars

C6_Witness ==
    /\ request.view = "detail"
    /\ IsFuture(request.question_id)
    /\ response.status = 404

(* C7: with requests served one at a time, the votes of every Choice equal
   the number of accepted vote requests for it since it was created. *)
C7_VotesEqualAcceptedVotes ==
    \A c \in DOMAIN choices : choices[c].votes = accepted[c]

C7_Witness ==
    \E c \in DOMAIN choices :
        /\ accepted[c] = 2
        /\ choices[c].votes = 2
        /\ served = 3
        /\ response.status = 200

(* C8: the save of a vote writes the votes read earlier by the same request
   plus 1, whatever is stored by then, and the request is redirected; two
   overlapping votes can so both be accepted while votes grow by 1. *)
C8_SaveWritesStaleReadPlusOne ==
    [][\A r \in Clients :
          (inflight[r].pc = "save" /\ inflight'[r].pc = "idle")
          => LET c == inflight[r].selected_choice.id IN
             /\ choices'[c].votes = inflight[r].selected_choice.votes + 1
             /\ accepted'[c] = accepted[c] + 1
             /\ response'.status = 302
             /\ response'.location = <<"polls:results", inflight[r].question>>]_vars

C8_Witness ==
    \E c \in DOMAIN choices :
        /\ accepted[c] = 2
        /\ choices[c].votes = 1
        /\ \A r \in Clients : inflight[r].pc = "idle"

(* C9: every Choice has votes >= 0 and no step of any request, overlapping
   or not, lowers the stored votes of a Choice. *)
C9_VotesNeverDecrease ==
    [][/\ \A c \in DOMAIN choices : choices[c].votes >= 0
       /\ \A c \in DOMAIN choices : choices'[c].votes >= choices[c].votes]_vars

(* C10: a vote for an existing Question that submits one of its Choices is
   answered 404 without changing votes while pub_date is in the future, and
   is accepted with a redirect once the clock has reached pub_date. *)
C10_VoteFutureNotFoundThenAccepted ==
    [][(/\ Handled
        /\ request'.view = "vote"
        /\ Exists(request'.question_id)
        /\ Belongs(request'.choice, request'.question_id))
       => IF questions[request'.question_id].pub_date > now
          THEN response'.status = 404 /\ choices' = choices
          ELSE /\ response'.status = 302
               /\ accepted'[request'.choice] = accepted[request'.choice] + 1]_vars

C10_Witness ==
    /\ request.view = "vote"
    /\ IsFuture(request.question_id)
    /\ Belongs(request.choice, request.question_id)
    /\ response.status = 404
    /\ accepted[request.choice] = 0
====
